---- MODULE Spec2Model ----
(***************************************************************************)
(* Model of the proximity engine of parcels_analysis.py: line_seg,         *)
(* valid_point, intersection_info and the class ParticlePlotFeature        *)
(* (__init__, count_near, get_closest_dist).                               *)
(*                                                                         *)
(* Floats are modelled in exact arithmetic: a float is a reduced fraction, *)
(* NaN, or a signed infinity.  Comparisons with NaN are false and          *)
(* arithmetic on NaN gives NaN, as in IEEE 754; rounding is not modelled.  *)
(* Python indices are kept 0-based: Get(s, i) is s[i].                      *)
(***************************************************************************)
EXTENDS Integers, Sequences, FiniteSets

\* ---------------------------------------------------------------- bounds
\* Largest number of waypoints handed to the constructor.
MaxN == 3
\* Largest number of positions in one count_near batch.
MaxM == 2
\* Largest coordinate of the waypoints of the two-point tracks.
MaxCoord == 2

\* ---------------------------------------------------------------- floats
Abs(i) == IF i < 0 THEN -i ELSE i

RECURSIVE Gcd(_, _)
Gcd(a, b) == IF b = 0 THEN a ELSE Gcd(b, a % b)

\* The fraction n/d (d # 0) in lowest terms with a positive denominator.
Num(n, d) ==
  LET s == IF d < 0 THEN -1 ELSE 1
      g == Gcd(Abs(n), Abs(d))
  IN  [k |-> "num", n |-> (s * n) \div g, d |-> (s * d) \div g]

F(i) == Num(i, 1)

NaN == [k |-> "nan", n |-> 0, d |-> 1]

\* np.inf (n = 1) and -np.inf (n = -1).
Inf == [k |-> "inf", n |-> 1, d |-> 1]
NegInf == [k |-> "inf", n |-> -1, d |-> 1]

IsNaN(a) == a.k = "nan"
IsFinite(a) == a.k = "num"
Sign(a) == IF a.n > 0 THEN 1 ELSE IF a.n < 0 THEN -1 ELSE 0
SignedInf(s) == IF s > 0 THEN Inf ELSE NegInf

FNeg(a) ==
  IF IsNaN(a) THEN NaN
  ELSE IF a.k = "inf" THEN SignedInf(-a.n)
  ELSE Num(-a.n, a.d)

FAdd(a, b) ==
  IF IsNaN(a) \/ IsNaN(b) THEN NaN
  ELSE IF a.k = "inf" /\ b.k = "inf" THEN (IF a.n = b.n THEN a ELSE NaN)
  ELSE IF a.k = "inf" THEN a
  ELSE IF b.k = "inf" THEN b
  ELSE Num(a.n * b.d + b.n * a.d, a.d * b.d)

FSub(a, b) == FAdd(a, FNeg(b))

FMul(a, b) ==
  IF IsNaN(a) \/ IsNaN(b) THEN NaN
  ELSE IF a.k = "inf" \/ b.k = "inf"
       THEN (IF Sign(a) * Sign(b) = 0 THEN NaN ELSE SignedInf(Sign(a) * Sign(b)))
  ELSE Num(a.n * b.n, a.d * b.d)

\* IEEE division (numpy float64): x/0 is a signed infinity, 0/0 is NaN.
FDiv(a, b) ==
  IF IsNaN(a) \/ IsNaN(b) THEN NaN
  ELSE IF a.k = "inf" /\ b.k = "inf" THEN NaN
  ELSE IF a.k = "inf" THEN SignedInf(IF Sign(b) < 0 THEN -a.n ELSE a.n)
  ELSE IF b.k = "inf" THEN F(0)
  ELSE IF b.n = 0 THEN (IF a.n = 0 THEN NaN ELSE SignedInf(Sign(a)))
  ELSE Num(a.n * b.d, a.d * b.n)

FEq(a, b) == ~IsNaN(a) /\ ~IsNaN(b) /\ a = b
FNe(a, b) == ~FEq(a, b)

FLt(a, b) ==
  IF IsNaN(a) \/ IsNaN(b) THEN FALSE
  ELSE IF a.k = "inf" THEN a.n < 0 /\ a # b
  ELSE IF b.k = "inf" THEN b.n > 0
  ELSE a.n * b.d < b.n * a.d

FLe(a, b) == FLt(a, b) \/ FEq(a, b)

\* Python's s[i] for an index 0 <= i < len(s).
Get(s, i) == s[i + 1]

\* Absent and present attribute values, uniformly shaped.
Unset == [k |-> "unset", v |-> <<>>]
NoneV == [k |-> "None", v |-> <<>>]
Arr(s) == [k |-> "array", v |-> s]
Scalar(t) == [k |-> "scalar", v |-> <<t>>]

\* -------------------------------------------------------------- geometry
\* A line_seg that gives a vertical segment the slope 0 instead of NaN.
line_seg_vertical_zero(x1, y1, x2, y2) ==
  [x1 |-> x1, y1 |-> y1, x2 |-> x2, y2 |-> y2,
   dom |-> IF FLe(x1, x2) THEN <<x1, x2>> ELSE <<x2, x1>>,
   rng |-> IF FLe(y1, y2) THEN <<y1, y2>> ELSE <<y2, y1>>,
   slope |-> IF FNe(FSub(x1, x2), F(0))
             THEN FDiv(FSub(y1, y2), FSub(x1, x2)) ELSE F(0)]

\* line_seg(x1, y1, x2, y2): x is longitude, y is latitude; the slope of a
\* vertical segment (x1 = x2) is NaN.
line_seg(x1, y1, x2, y2) ==
  [x1 |-> x1, y1 |-> y1, x2 |-> x2, y2 |-> y2,
   dom |-> IF FLe(x1, x2) THEN <<x1, x2>> ELSE <<x2, x1>>,
   rng |-> IF FLe(y1, y2) THEN <<y1, y2>> ELSE <<y2, y1>>,
   slope |-> IF FNe(FSub(x1, x2), F(0))
             THEN FDiv(FSub(y1, y2), FSub(x1, x2)) ELSE NaN]

\* A valid_point that tests the domain and forgets the range.
valid_point_dom_only(x, y, line) ==
  FLe(line.dom[1], x) /\ FLe(x, line.dom[2])

\* valid_point(x, y, line): inside the segment's bounding box, bounds included.
valid_point(x, y, line) ==
  LET in_dom == FLe(line.dom[1], x) /\ FLe(x, line.dom[2])
      in_range == FLe(line.rng[1], y) /\ FLe(y, line.rng[2])
  IN  in_dom /\ in_range

\* intersection_info(x, y, line): <<intersection x, intersection y>>.
intersection_info(x, y, line) ==
  IF IsNaN(line.slope) THEN <<line.x1, y>>
  ELSE IF FEq(line.slope, F(0)) THEN <<x, line.y1>>
  ELSE LET norm_slope == FDiv(F(-1), line.slope)
           slope_d == FSub(norm_slope, line.slope)
           int_d == FSub(FAdd(FMul(line.slope, FNeg(line.x1)), line.y1),
                         FAdd(FMul(norm_slope, FNeg(x)), y))
           x_int == FDiv(int_d, slope_d)
           y_int == FAdd(FMul(norm_slope, FSub(x_int, x)), y)
       IN  <<x_int, y_int>>

\* utils.haversine(lat1, lat2, lon1, lon2), the great-circle distance of spec
\* section 4.1: non-negative, symmetric, zero from a point to itself, NaN when
\* a coordinate is NaN.  The value is the small-angle haversine term
\* dlat^2 + cos(lat1)cos(lat2) dlon^2 with the cosine product fixed at 1/4
\* (latitude 60), of which the distance is an increasing function.
haversine(lat1, lat2, lon1, lon2) ==
  LET dlat == FSub(lat2, lat1)
      dlon == FSub(lon2, lon1)
  IN  FAdd(FMul(dlat, dlat), FMul(Num(1, 4), FMul(dlon, dlon)))

\* ---------------------------------------------------------------- KDTree
\* scipy.spatial.KDTree(points): order is the tree's own, fixed order in which
\* equidistant points are found.
KDTree(data, order) == [k |-> "tree", data |-> data, order |-> order]
NoTree == [k |-> "unset", data |-> <<>>, order |-> "first"]

\* Squared Euclidean distance on the (lat, lon) key.
key_dist(p, x) ==
  FAdd(FMul(FSub(p[1], x[1]), FSub(p[1], x[1])),
       FMul(FSub(p[2], x[2]), FSub(p[2], x[2])))

SetMin(S) == CHOOSE i \in S : \A j \in S : i <= j
SetMax(S) == CHOOSE i \in S : \A j \in S : i >= j

\* The indices (0-based) of the points at least distance from x.
nearest_set(data, x) ==
  LET d == [i \in 0..(Len(data) - 1) |-> key_dist(Get(data, i), x)]
  IN  {i \in 0..(Len(data) - 1) : \A j \in 0..(Len(data) - 1) : FLe(d[i], d[j])}

\* kdtree.query(x)[1]: the index of the nearest point; a missing neighbour
\* (no point, or no point at a distance below infinity) is indicated by n.
kdtree_query(tree, x) ==
  LET near == nearest_set(tree.data, x)
  IN  IF near = {} THEN Len(tree.data)
      ELSE IF tree.order = "first" THEN SetMin(near) ELSE SetMax(near)

\* ------------------------------------------------- ParticlePlotFeature
\* What a call produced: a returned float (val), a returned count array
\* (counts), or a raised exception (exc).
NoVal == [k |-> "none", n |-> 0, d |-> 1]
Return(val) == [k |-> "return", val |-> val, counts |-> <<>>, exc |-> ""]
ReturnCounts(c) == [k |-> "return", val |-> NoVal, counts |-> c, exc |-> ""]
Raise(exc) == [k |-> "raise", val |-> NoVal, counts |-> <<>>, exc |-> exc]

LabelsError == "ValueError: Labels must be the same length as lats/lons"
EmptyTreeError == "ValueError: zero-size array to reduction operation"
NegativeDimError == "ValueError: negative dimensions are not allowed"
TruthValueError == "ValueError: the truth value of an array is ambiguous"
IndexError == "IndexError"

\* A labels test that rejects too few labels only.
labels_mismatch_too_few(labels_, lats_) ==
  labels_.k # "None" /\ Len(labels_.v) < Len(lats_)

\* The test of __init__ on the labels it was given.
labels_mismatch(labels_, lats_) ==
  labels_.k # "None" /\ Len(labels_.v) # Len(lats_)

\* np.array([lats, lons]).T
points_of(lats_, lons_) == [i \in 1..Len(lats_) |-> <<lats_[i], lons_[i]>>]

\* The loop of __init__ that fills self.segments.
make_segments(lats_, lons_) ==
  [i \in 1..(Len(lats_) - 1) |->
     line_seg(lons_[i], lats_[i], lons_[i + 1], lats_[i + 1])]

\* The comparison with < in place of <=.
within_strict(h, dist) ==
  IF dist.k = "scalar" THEN (IF FLt(h, dist.v[1]) THEN "True" ELSE "False")
  ELSE IF Len(dist.v) = 1 THEN (IF FLt(h, dist.v[1]) THEN "True" ELSE "False")
  ELSE "raise"

\* The comparison with its operands exchanged.
within_reversed(h, dist) ==
  IF dist.k = "scalar" THEN (IF FLe(dist.v[1], h) THEN "True" ELSE "False")
  ELSE IF Len(dist.v) = 1 THEN (IF FLe(dist.v[1], h) THEN "True" ELSE "False")
  ELSE "raise"

\* The truth of `haversine(...) <= self.track_dist`: "True", "False", or
\* "raise" when track_dist is an array of several thresholds, whose
\* element-wise comparison has no truth value.
within(h, dist) ==
  IF dist.k = "scalar" THEN (IF FLe(h, dist.v[1]) THEN "True" ELSE "False")
  ELSE IF Len(dist.v) = 1 THEN (IF FLe(h, dist.v[1]) THEN "True" ELSE "False")
  ELSE "raise"

\* The inner loop of count_near over the waypoints, from waypoint i on.
RECURSIVE count_point(_, _, _, _, _)
count_point(counts, p_point, pts, dist, i) ==
  IF i >= Len(pts) THEN ReturnCounts(counts)
  ELSE LET point == Get(pts, i)
           c == within(haversine(p_point[1], point[1], p_point[2], point[2]), dist)
       IN  IF c = "raise" THEN Raise(TruthValueError)
           ELSE count_point(IF c = "True"
                            THEN [counts EXCEPT ![i + 1] = @ + 1] ELSE counts,
                            p_point, pts, dist, i + 1)

\* The outer loop of count_near over zip(p_lats, p_lons), from position j on.
RECURSIVE count_from(_, _, _, _, _, _)
count_from(counts, p_lats, p_lons, pts, dist, j) ==
  IF j > Len(p_lats) \/ j > Len(p_lons) THEN ReturnCounts(counts)
  ELSE LET r == count_point(counts, <<p_lats[j], p_lons[j]>>, pts, dist, 0)
       IN  IF r.k = "raise" THEN r
           ELSE count_from(r.counts, p_lats, p_lons, pts, dist, j + 1)

\* count_near(p_lats, p_lons) on a track with these points and track_dist.
count_near_result(lats_, pts, dist, p_lats, p_lons) ==
  count_from([i \in 1..Len(lats_) |-> 0], p_lats, p_lons, pts, dist, 1)

\* A seg_check whose first test is off by one (<= for <).
seg_check_off_by_one(n, closest_idx) ==
  (IF closest_idx <= n - 1 THEN <<closest_idx>> ELSE <<>>)
    \o (IF closest_idx > 0 THEN <<closest_idx - 1>> ELSE <<>>)

\* The indices of self.segments that get_closest_dist reads, in order, on a
\* track of n points.
seg_check(n, closest_idx) ==
  (IF closest_idx < n - 1 THEN <<closest_idx>> ELSE <<>>)
    \o (IF closest_idx > 0 THEN <<closest_idx - 1>> ELSE <<>>)

\* One pass of the loop over seg_check.
seg_step(lat, lon, seg, least_dist) ==
  LET int == intersection_info(lon, lat, seg)
      lon_int == int[1]
      lat_int == int[2]
  IN  IF valid_point(lon_int, lat_int, seg)
      THEN LET dist == haversine(lat, lat_int, lon, lon_int)
           IN  IF FLt(dist, least_dist) THEN dist ELSE least_dist
      ELSE least_dist

RECURSIVE seg_loop(_, _, _, _, _, _)
seg_loop(lat, lon, segs, idxs, j, least_dist) ==
  IF j > Len(idxs) THEN least_dist
  ELSE seg_loop(lat, lon, segs, idxs, j + 1,
                seg_step(lat, lon, Get(segs, idxs[j]), least_dist))

\* A get_closest_dist that leaves out the closest point itself.
point_step_skipped(lat, lon, pnt, least_dist) == least_dist

\* The check of the distance to the closest point itself.
point_step(lat, lon, pnt, least_dist) ==
  LET dist == haversine(lat, pnt[1], lon, pnt[2])
  IN  IF FLt(dist, least_dist) THEN dist ELSE least_dist

\* The segment indices read by get_closest_dist once closest_idx is known.
segment_reads(pts, segs, closest_idx) ==
  IF segs.k = "None" THEN <<>> ELSE seg_check(Len(pts), closest_idx)

\* The body of get_closest_dist after the lookup of closest_idx: a read of
\* self.segments or self.points past the end raises IndexError.
closest_dist_from(pts, segs, lat, lon, closest_idx, reads) ==
  IF \E j \in 1..Len(reads) : reads[j] >= Len(segs.v)
  THEN Raise(IndexError)
  ELSE IF closest_idx >= Len(pts) THEN Raise(IndexError)
  ELSE Return(point_step(lat, lon, Get(pts, closest_idx),
                         seg_loop(lat, lon, segs.v, reads, 1, Inf)))

\* ----------------------------------------------------------------- state
\* pc: "new" before the constructor runs, "ok" once it returned, "raised"
\* once it raised.  lats .. track_dist are the attributes of self, in the
\* order __init__ assigns them.  call is the last call made: its arguments,
\* the segment indices it read, and what it produced.
VARIABLES pc, lats, lons, points, kdtree, labels, segments, track_dist, call

self == <<lats, lons, points, kdtree, labels, segments, track_dist>>
vars == <<pc, lats, lons, points, kdtree, labels, segments, track_dist, call>>

\* ---------------------------------------------------------------- inputs
\* Waypoints as (lat, lon): between them a horizontal segment (0,0)-(0,2), a
\* vertical one (0,2)-(1,2), a sloped one (0,0)-(1,2), and repeated points.
Sites == {<<F(0), F(0)>>, <<F(0), F(2)>>, <<F(1), F(2)>>}
WaypointLists == UNION {[1..n -> Sites] : n \in 0..MaxN}
\* The tracks followed through sequences of queries.
SeqWaypointLists ==
  {<<>>, <<<<F(0), F(0)>>, <<F(0), F(2)>>, <<F(1), F(2)>>>>,
   <<<<F(1), F(2)>>, <<F(0), F(0)>>>>}
\* Every two-point track on the grid 0..MaxCoord: one segment of every
\* direction the grid has, vertical, horizontal and of either sign of slope.
GridSites == {<<F(a), F(b)>> : a, b \in 0..MaxCoord}
GridWaypointLists == [1..2 -> GridSites]
\* Query coordinates on, between and around the grid.
GridQueryCoords == {F(c) : c \in (-1)..(MaxCoord + 1)} \cup {Num(1, 2)}
LabelArgs == {NoneV} \cup {Arr([i \in 1..m |-> i]) : m \in 0..MaxN}
TrackDistArgs(n) ==
  {Scalar(F(0)), Scalar(F(1)), [k |-> "ndarray", v |-> [i \in 1..n |-> F(1)]]}
QueryLats == {F(0), Num(1, 2), F(2), NaN}
QueryLons == {F(0), F(1), F(2)}
Positions == {<<F(0), F(0)>>, <<NaN, NaN>>}
Batches == UNION {[1..m -> Positions] : m \in 0..MaxM}

InitCall(a_lats, a_lons, a_labels, a_segments, a_dist, out) ==
  [op |-> "__init__", lats |-> a_lats, lons |-> a_lons, labels |-> a_labels,
   segments |-> a_segments, track_dist |-> a_dist, reads |-> <<>>, out |-> out,
   prev |-> "none"]
\* prev is the operation of the call made before this one.
QueryCall(op, a_lats, a_lons, reads, out, prev) ==
  [op |-> op, lats |-> a_lats, lons |-> a_lons, labels |-> NoneV,
   segments |-> FALSE, track_dist |-> Unset, reads |-> reads, out |-> out,
   prev |-> prev]
NoCall == QueryCall("none", <<>>, <<>>, <<>>, Raise(""), "none")

Init ==
  /\ pc = "new"
  /\ lats = <<>> /\ lons = <<>> /\ points = <<>>
  /\ kdtree = NoTree
  /\ labels = Unset /\ segments = Unset /\ track_dist = Unset
  /\ call = NoCall

\* ParticlePlotFeature(lats, lons, labels, segments, track_dist).  order and
\* empty_ok are the KDTree build's own: the order in which it finds
\* equidistant points, and whether it accepts an empty point array.
Construct(a_lats, a_lons, a_labels, a_segments, a_dist, order, empty_ok) ==
  LET n == Len(a_lats)
      done(out) == call' = InitCall(a_lats, a_lons, a_labels, a_segments, a_dist, out)
  IN
  /\ pc = "new"
  /\ lats' = a_lats
  /\ lons' = a_lons
  /\ points' = points_of(a_lats, a_lons)
  /\ IF n = 0 /\ ~empty_ok
     THEN /\ kdtree' = NoTree /\ labels' = Unset
          /\ segments' = Unset /\ track_dist' = Unset
          /\ pc' = "raised" /\ done(Raise(EmptyTreeError))
     ELSE
     /\ kdtree' = KDTree(points_of(a_lats, a_lons), order)
     /\ labels' = a_labels
     /\ IF labels_mismatch(a_labels, a_lats)
        THEN /\ segments' = Unset /\ track_dist' = Unset
             /\ pc' = "raised" /\ done(Raise(LabelsError))
        ELSE IF a_segments /\ Len(a_lats) - 1 < 0
        THEN /\ segments' = Unset /\ track_dist' = Unset
             /\ pc' = "raised" /\ done(Raise(NegativeDimError))
        ELSE /\ segments' = IF a_segments
                            THEN Arr(make_segments(a_lats, a_lons)) ELSE NoneV
             /\ track_dist' = a_dist
             /\ pc' = "ok" /\ done(Return(NoVal))

\* A count_near that assigns the batch to self.lats and self.lons.
count_near_keeps_batch(p_lats, p_lons) ==
  /\ pc = "ok"
  /\ call' = QueryCall("count_near", p_lats, p_lons, <<>>,
                       count_near_result(lats, points, track_dist, p_lats, p_lons),
                       call.op)
  /\ lats' = p_lats /\ lons' = p_lons
  /\ UNCHANGED <<pc, points, kdtree, labels, segments, track_dist>>

\* count_near(p_lats, p_lons): counts is a local; self is only read.
count_near(p_lats, p_lons) ==
  /\ pc = "ok"
  /\ call' = QueryCall("count_near", p_lats, p_lons, <<>>,
                       count_near_result(lats, points, track_dist, p_lats, p_lons),
                       call.op)
  /\ UNCHANGED <<pc, lats, lons, points, kdtree, labels, segments, track_dist>>

\* get_closest_dist(lat, lon): self is only read.
get_closest_dist(lat, lon) ==
  /\ pc = "ok"
  /\ \E closest_idx \in {kdtree_query(kdtree, <<lat, lon>>)} :
       \E reads \in {segment_reads(points, segments, closest_idx)} :
          call' = QueryCall("get_closest_dist", <<lat>>, <<lon>>, reads,
                            closest_dist_from(points, segments, lat, lon,
                                              closest_idx, reads),
                            call.op)
  /\ UNCHANGED <<pc, lats, lons, points, kdtree, labels, segments, track_dist>>

Lats(w) == [i \in 1..Len(w) |-> w[i][1]]
Lons(w) == [i \in 1..Len(w) |-> w[i][2]]

\* Every constructor call, followed by any one query on the new track.
Next ==
  \/ /\ pc = "new"
     /\ \E w \in WaypointLists, a_labels \in LabelArgs, a_segments \in BOOLEAN,
           order \in {"first", "last"}, empty_ok \in BOOLEAN :
          \E a_dist \in TrackDistArgs(Len(w)) :
             Construct(Lats(w), Lons(w), a_labels, a_segments, a_dist, order, empty_ok)
  \/ /\ pc = "ok" /\ call.op = "__init__"
     /\ \E b \in Batches : count_near(Lats(b), Lons(b))
  \/ /\ pc = "ok" /\ call.op = "__init__"
     /\ \E lat \in QueryLats, lon \in QueryLons : get_closest_dist(lat, lon)

Spec == Init /\ [][Next]_vars

\* A few tracks, each followed through every sequence of queries.
NextSeq ==
  \/ /\ pc = "new"
     /\ \E w \in SeqWaypointLists, a_labels \in LabelArgs, a_segments \in BOOLEAN,
           order \in {"first", "last"}, empty_ok \in BOOLEAN :
          \E a_dist \in TrackDistArgs(Len(w)) :
             Construct(Lats(w), Lons(w), a_labels, a_segments, a_dist, order, empty_ok)
  \/ /\ pc = "ok"
     /\ \E b \in Batches : count_near(Lats(b), Lons(b))
  \/ /\ pc = "ok"
     /\ \E lat \in QueryLats, lon \in QueryLons : get_closest_dist(lat, lon)

SpecSeq == Init /\ [][NextSeq]_vars

\* Every two-point track of the grid, built with its segment, followed by any
\* one distance query.
NextGeom ==
  \/ /\ pc = "new"
     /\ \E w \in GridWaypointLists, order \in {"first", "last"} :
          Construct(Lats(w), Lons(w), NoneV, TRUE, Scalar(F(0)), order, TRUE)
  \/ /\ pc = "ok" /\ call.op = "__init__"
     /\ \E lat \in GridQueryCoords, lon \in GridQueryCoords :
          get_closest_dist(lat, lon)

SpecGeom == Init /\ [][NextGeom]_vars

\* ------------------------------------------------------------ properties
N == Len(points)
IsInit == call.op = "__init__"
IsCount == pc = "ok" /\ call.op = "count_near"
IsDist == pc = "ok" /\ call.op = "get_closest_dist"
qlat == call.lats[1]
qlon == call.lons[1]
FiniteQuery == IsFinite(qlat) /\ IsFinite(qlon)
idx == kdtree_query(kdtree, <<qlat, qlon>>)
\* Distance from the query point to waypoint i (0-based).
WaypointDist(i) == haversine(qlat, Get(points, i)[1], qlon, Get(points, i)[2])
\* Projection of the query point onto segment j (0-based), and its distance.
Proj(j) == intersection_info(qlon, qlat, Get(segments.v, j))
ProjValid(j) == valid_point(Proj(j)[1], Proj(j)[2], Get(segments.v, j))
ProjDist(j) == haversine(qlat, Proj(j)[2], qlon, Proj(j)[1])
\* The candidate segments of the claim: segment[idx-1] when idx > 0 and
\* segment[idx] when idx < N-1, when segments exist.
Adjacent(i) ==
  IF segments.k = "array"
  THEN {j \in {i - 1, i} : (j = i - 1 /\ i > 0) \/ (j = i /\ i < N - 1)}
  ELSE {}
\* The adjacent segments paired with the projections onto them, and those of
\* them whose projection passes valid_point.
AdjacentProj(i) == {<<j, Proj(j)>> : j \in Adjacent(i)}
ValidProj(i) ==
  {jp \in AdjacentProj(i) : valid_point(jp[2][1], jp[2][2], Get(segments.v, jp[1]))}
Candidates(i) ==
  {WaypointDist(i)} \cup {haversine(qlat, jp[2][2], qlon, jp[2][1]) : jp \in ValidProj(i)}

\* C1: for a track of N >= 1 waypoints and a finite query point,
\* get_closest_dist returns the minimum of the distance to the nearest
\* waypoint and the distances to the valid projections onto segment[idx-1]
\* and segment[idx]; so it is at most the nearest-waypoint distance, equal to
\* it when no projection is valid, and only segment indices 0..N-2 are read.
C1_ClosestIsMinimum ==
  (IsDist /\ N >= 1 /\ FiniteQuery) =>
     \A i \in {idx} : \A cands \in {Candidates(i)} :
         /\ call.out.k = "return"
         /\ call.out.val \in cands
         /\ \A c \in cands : FLe(call.out.val, c)
         /\ FLe(call.out.val, WaypointDist(i))
         /\ (ValidProj(i) = {} => call.out.val = WaypointDist(i))
         /\ \A r \in 1..Len(call.reads) : call.reads[r] \in 0..(N - 2)
         /\ {call.reads[r] : r \in 1..Len(call.reads)} = Adjacent(i)

\* A query whose nearest waypoint is the middle one of three, with both
\* adjacent segments read and a projection closer than the waypoint.
C1_Witness ==
  /\ IsDist /\ N = 3 /\ FiniteQuery /\ idx = 1
  /\ Len(call.reads) = 2
  /\ call.out.k = "return"
  /\ FLt(call.out.val, WaypointDist(idx))

\* The threshold of waypoint i (1-based) as the claim reads track_dist.
Threshold(i) == IF track_dist.k = "scalar" THEN track_dist.v[1] ELSE track_dist.v[i]
\* The positions of the batch within the threshold of waypoint i.
NearPositions(i) ==
  {j \in 1..Len(call.lats) :
     FLe(haversine(call.lats[j], points[i][1], call.lons[j], points[i][2]),
         Threshold(i))}
ExactCounts ==
  /\ call.out.k = "return"
  /\ Len(call.out.counts) = N
  /\ \A i \in 1..N : call.out.counts[i] = Cardinality(NearPositions(i))

ArgMismatch == call.labels.k # "None" /\ Len(call.labels.v) # Len(call.lats)

\* C3: a constructor call whose labels differ in number from the waypoints
\* raises and leaves no usable track; a call with no labels or with exactly N
\* labels does not raise the labels error; no constructed track has labels of
\* another length than its waypoints.
C3_LabelMismatchRejected ==
  /\ (IsInit /\ ArgMismatch) => (pc = "raised" /\ call.out.k = "raise")
  /\ (IsInit /\ ArgMismatch /\ Len(call.lats) >= 1) => call.out.exc = LabelsError
  /\ (IsInit /\ ~ArgMismatch) => call.out.exc # LabelsError
  /\ pc = "ok" => (labels.k = "None" \/ Len(labels.v) = Len(lats))

\* Three waypoints with two labels, rejected.
C3_Witness ==
  /\ IsInit /\ Len(call.lats) = 3 /\ call.labels.k = "array"
  /\ Len(call.labels.v) = 2
  /\ pc = "raised" /\ call.out.exc = LabelsError

\* C4: constructing a track with zero waypoints is rejected, with or without
\* segments and labels; no track with N = 0 is ever there to be queried.
C4_EmptyRejected ==
  /\ (IsInit /\ Len(call.lats) = 0) => pc = "raised"
  /\ pc = "ok" => N >= 1

\* C5: a get_closest_dist query with a NaN latitude returns NaN and does not
\* raise.
C5_NaNReturned ==
  (IsDist /\ IsNaN(qlat)) => (call.out.k = "return" /\ IsNaN(call.out.val))

\* C6: on a track built without segments, get_closest_dist of a finite point
\* is the distance to the waypoint the nearest-waypoint lookup returns, a
\* waypoint no farther in the (lat, lon) plane than any other, and no segment
\* is read.
C6_WaypointOnly ==
  (IsDist /\ segments.k = "None" /\ N >= 1 /\ FiniteQuery) =>
     \A i \in {idx} :
         /\ call.out.k = "return"
         /\ i \in 0..(N - 1)
         /\ call.out.val = WaypointDist(i)
         /\ \A j \in 0..(N - 1) :
              FLe(key_dist(Get(points, i), <<qlat, qlon>>),
                  key_dist(Get(points, j), <<qlat, qlon>>))
         /\ call.reads = <<>>

\* A query off the waypoints of a track of several waypoints without segments.
C6_Witness ==
  /\ IsDist /\ segments.k = "None" /\ N >= 2 /\ FiniteQuery
  /\ call.out.k = "return"
  /\ FLt(F(0), call.out.val)

SameQuery ==
  /\ call'.op = call.op
  /\ call'.lats = call.lats
  /\ call'.lons = call.lons

Thresholds == {F(0), Num(1, 4), F(1), F(2), F(5)}
CountsAt(t) ==
  count_near_result(lats, points, Scalar(t), call.lats, call.lons).counts

\* C8: for the waypoints and the batch of a count_near call, the counts under
\* thresholds t1 <= t2 satisfy count(t1) <= count(t2) at every waypoint, every
\* count lies in 0..M, and the call returned the counts of its own threshold.
C8_CountMonotone ==
  (IsCount /\ track_dist.k = "scalar") =>
     \A at \in {[t \in Thresholds \cup {track_dist.v[1]} |-> CountsAt(t)]} :
         /\ call.out.k = "return"
         /\ call.out.counts = at[track_dist.v[1]]
         /\ \A i \in 1..N : call.out.counts[i] \in 0..Len(call.lats)
         /\ \A t1, t2 \in DOMAIN at :
              FLe(t1, t2) => \A i \in 1..N : at[t1][i] <= at[t2][i]

\* A count that a larger threshold strictly increases.
C8_Witness ==
  /\ IsCount /\ track_dist = Scalar(F(0)) /\ Len(call.lats) = 2
  /\ call.out.k = "return"
  /\ \E i \in 1..N : call.out.counts[i] < CountsAt(F(1))[i]

InRange(y, seg) == FLe(seg.rng[1], y) /\ FLe(y, seg.rng[2])

\* C9: a segment between waypoints of equal longitude has the vertical
\* (NaN) slope; the projection of a finite query point (x, y) onto it is
\* (segment.x1, y), not NaN; when y is in the segment's latitude range the
\* projection is valid, and a read of the segment makes the result at most
\* the distance to that projection.
C9_VerticalSegment ==
  (pc = "ok" /\ segments.k = "array") =>
     \A j \in 0..(Len(segments.v) - 1) :
        LET seg == Get(segments.v, j)
        IN  FEq(seg.x1, seg.x2) =>
              /\ IsNaN(seg.slope)
              /\ (IsDist /\ FiniteQuery) => \A P \in {Proj(j)} :
                   /\ P = <<seg.x1, qlat>>
                   /\ IsFinite(P[1]) /\ IsFinite(P[2])
                   /\ InRange(qlat, seg) =>
                        /\ valid_point(P[1], P[2], seg)
                        /\ (\E r \in 1..Len(call.reads) : call.reads[r] = j)
                             => /\ call.out.k = "return"
                                /\ FLe(call.out.val, haversine(qlat, qlat, qlon, seg.x1))

\* A query beside a vertical segment of distinct endpoints, strictly inside
\* its latitude range, whose projection is the result.
C9_Witness ==
  /\ IsDist /\ FiniteQuery /\ segments.k = "array"
  /\ \E j \in 0..(Len(segments.v) - 1) :
        LET seg == Get(segments.v, j)
        IN  /\ FEq(seg.x1, seg.x2) /\ FNe(seg.y1, seg.y2)
            /\ FLt(seg.rng[1], qlat) /\ FLt(qlat, seg.rng[2])
            /\ FNe(qlon, seg.x1)
            /\ \E r \in 1..Len(call.reads) : call.reads[r] = j
            /\ call.out.k = "return"
            /\ call.out.val = ProjDist(j)
            /\ FLt(call.out.val, WaypointDist(idx))

\* (P - P1) x (P2 - P1) and (P - P1) . (P2 - P1) for a point P and the
\* endpoints P1, P2 of a segment, and |P2 - P1|^2.
Cross(P, seg) ==
  FSub(FMul(FSub(P[1], seg.x1), FSub(seg.y2, seg.y1)),
       FMul(FSub(P[2], seg.y1), FSub(seg.x2, seg.x1)))
Dot(P, seg) ==
  FAdd(FMul(FSub(P[1], seg.x1), FSub(seg.x2, seg.x1)),
       FMul(FSub(P[2], seg.y1), FSub(seg.y2, seg.y1)))
SqLen(seg) ==
  FAdd(FMul(FSub(seg.x2, seg.x1), FSub(seg.x2, seg.x1)),
       FMul(FSub(seg.y2, seg.y1), FSub(seg.y2, seg.y1)))

\* C10: the projection of a finite query point onto any segment of the track
\* lies on the line through the segment's endpoints, and when valid_point
\* accepts it, it lies between the endpoints.
C10_ProjectionOnSegment ==
  (IsDist /\ FiniteQuery /\ segments.k = "array") =>
     \A j \in 0..(Len(segments.v) - 1) :
        \A P \in {Proj(j)} : \A seg \in {Get(segments.v, j)} :
           /\ FEq(Cross(P, seg), F(0))
           /\ valid_point(P[1], P[2], seg) =>
                \A d \in {Dot(P, seg)} : FLe(F(0), d) /\ FLe(d, SqLen(seg))

\* A sloped segment with a valid projection strictly between its endpoints,
\* off the query point.
C10_Witness ==
  /\ IsDist /\ FiniteQuery /\ segments.k = "array"
  /\ \E j \in 0..(Len(segments.v) - 1) :
        LET seg == Get(segments.v, j)
        IN  /\ IsFinite(seg.slope) /\ FNe(seg.slope, F(0))
            /\ ProjValid(j)
            /\ FLt(F(0), Dot(Proj(j), seg)) /\ FLt(Dot(Proj(j), seg), SqLen(seg))
            /\ Proj(j) # <<qlon, qlat>>

====
